---- MODULE Spec2Model ----
(***************************************************************************)
(* camera-viewer: an RTSP camera session (stream/rtsp.go) relayed to a     *)
(* WebRTC peer (stream/webrtc.go) and the HTTP signaling handlers          *)
(* (main.go).                                                              *)
(*                                                                         *)
(* The two transports are libraries (gortsplib, pion/webrtc).  What the    *)
(* repository's code does with them is translated statement by statement;  *)
(* a library call is modelled by its result: the error it may return is an *)
(* input drawn with \E, and the state it keeps (requests issued, callbacks *)
(* bound, tracks attached, JSEP signaling state) is a variable.            *)
(***************************************************************************)
EXTENDS Integers, Sequences, FiniteSets, TLC

\* ------------------------------------------------------------ bounds
MaxFormats == 3
MaxPackets == 2
MaxOffers == 2
MaxTracks == 2

\* ------------------------------------------------------------ values
\* The format types a media of the session description may carry; "Other"
\* is every type that is neither *format.H264 nor *format.H265.
FormatTypes == {"H264", "H265", "Other"}

\* A media is its list of formats (at least one); a session description is
\* its list of medias.  DescriptionsOf(n): the descriptions that declare n
\* formats in all; Descriptions: those that declare at most MaxFormats.
RECURSIVE DescriptionsOf(_)
DescriptionsOf(n) ==
    IF n = 0 THEN {<<>>}
    ELSE UNION { { Append(d, media) : d \in DescriptionsOf(n - k),
                                      media \in [1..k -> FormatTypes] }
                 : k \in 1..n }

Descriptions == UNION {DescriptionsOf(n) : n \in 0..MaxFormats}

\* The cameras of the end-to-end scenarios: H264 only, H265 only (each behind
\* an audio media), and a camera with no supported video format.
ScenarioCameras ==
    { <<(<<"H264">>)>>, <<(<<"Other">>), (<<"H265">>)>>, <<(<<"Other">>)>> }

VARIABLES
    camera,      \* the session description the camera answers DESCRIBE with
    rtspStream,  \* stream.RTSPStream and the state of its gortsplib client
    webrtcPeer,  \* stream.WebRTCPeer and the state of its pion peer connection
    pc,          \* where func main is
    calls,       \* the calls made by the last operation, in order
    ret,         \* what the method the last operation called returned
    request,     \* the HTTP request the last operation served, if it did
    response     \* the last HTTP response written

vars == <<camera, rtspStream, webrtcPeer, pc, calls, ret, request, response>>

\* ------------------------------------------------------------ RTSPStream
\* NewRTSPStream: only URL is set; client and onPacketHandler are nil and
\* detectedCodec is "".  requests, callbacks and playing are the gortsplib
\* client's state; received counts the packets it has dispatched to a
\* per-track callback, handled lists the ones passed on to onPacketHandler;
\* connectErr is what Connect returned ("none" before it was called).
NewRTSPStream ==
    [ client          |-> "nil",
      onPacketHandler |-> "nil",
      detectedCodec   |-> "",
      requests        |-> <<>>,
      callbacks       |-> {},
      playing         |-> FALSE,
      connectErr      |-> "none",
      received        |-> 0,
      handled         |-> <<>> ]

RTSPRequest(r, m) == [req |-> r, media |-> m]

\* s.client.Setup(session.BaseURL, media, 0, 0) for media m whose format j
\* matched, then detectedCodec, setupCount++ and s.client.OnPacketRTP.  The
\* failAt-th Setup call of this Connect returns an error (0: none does).
SetupMedia(st, m, j, codec, failAt) ==
    LET issued == Append(st.requests, RTSPRequest("SETUP", m)) IN
    IF st.setupCount + 1 = failAt
    THEN [st EXCEPT !.requests = issued, !.err = "errSetup"]
    ELSE [st EXCEPT !.requests = issued,
                    !.detectedCodec = codec,
                    !.setupCount = @ + 1,
                    !.callbacks = @ \cup {[media |-> m, format |-> j]}]

\* The format loop without its type assertions: the first format of a media
\* is set up as H264 whatever its type.
FormatLoopAnyFormat(st, media, m, j, failAt) ==
    IF j > Len(media) THEN st
    ELSE SetupMedia(st, m, j, "H264", failAt)

\* for _, forma := range media.Formats: the H264 type assertion, then the
\* H265 one; either sets the media up and breaks out of this (inner) loop.
RECURSIVE FormatLoop(_, _, _, _, _)
FormatLoop(st, media, m, j, failAt) ==
    IF j > Len(media) THEN st
    ELSE IF media[j] = "H264" THEN SetupMedia(st, m, j, "H264", failAt)
    ELSE IF media[j] = "H265" THEN SetupMedia(st, m, j, "H265", failAt)
    ELSE FormatLoop(st, media, m, j + 1, failAt)

\* for _, media := range session.Medias: a Setup error returns from Connect;
\* otherwise the loop goes on to the next media.
RECURSIVE MediaLoop(_, _, _, _)
MediaLoop(st, medias, m, failAt) ==
    IF m > Len(medias) THEN st
    ELSE LET next == FormatLoop(st, medias[m], m, 1, failAt) IN
         IF next.err # "nil" THEN next
         ELSE MediaLoop(next, medias, m + 1, failAt)

ConnectFaults == {"none", "parse", "start", "describe", "play"}

\* RTSPStream.Connect on stream s, the camera describing itself as desc.
\* fault names the library call that fails, failAt the Setup call that does.
Connect(s, desc, fault, failAt) ==
    IF fault = "parse" THEN [s EXCEPT !.connectErr = "errParse"]
    ELSE IF fault = "start"
    THEN [s EXCEPT !.client = "created", !.connectErr = "errStart"]
    ELSE IF fault = "describe"
    THEN [s EXCEPT !.client = "started",
                   !.requests = Append(@, RTSPRequest("DESCRIBE", 0)),
                   !.connectErr = "errDescribe"]
    ELSE
    LET st0 == [ detectedCodec |-> s.detectedCodec,
                 requests      |-> Append(s.requests, RTSPRequest("DESCRIBE", 0)),
                 callbacks     |-> s.callbacks,
                 setupCount    |-> 0,
                 err           |-> "nil" ]
        st == MediaLoop(st0, desc, 1, failAt)
        t == [s EXCEPT !.client = "started",
                       !.detectedCodec = st.detectedCodec,
                       !.requests = st.requests,
                       !.callbacks = st.callbacks]
    IN  IF st.err # "nil" THEN [t EXCEPT !.connectErr = st.err]
        ELSE IF st.setupCount = 0 THEN [t EXCEPT !.connectErr = "errNoCodec"]
        ELSE IF fault = "play"
        THEN [t EXCEPT !.requests = Append(@, RTSPRequest("PLAY", 0)),
                       !.connectErr = "errPlay"]
        ELSE [t EXCEPT !.requests = Append(@, RTSPRequest("PLAY", 0)),
                       !.playing = TRUE,
                       !.connectErr = "nil"]

\* RTSPStream.SetPacketHandler
SetPacketHandler(s, handler) == [s EXCEPT !.onPacketHandler = handler]

\* RTSPStream.GetCodec
GetCodec(s) == s.detectedCodec

\* RTSPStream.Close: s.client.Close() when a client was ever created.
CloseStream(s) ==
    IF s.client # "nil" THEN [s EXCEPT !.client = "closed", !.playing = FALSE]
    ELSE s

\* ------------------------------------------------------------ WebRTCPeer
\* An SDP text, by what it holds.  The n-th text the connection generates
\* for an offer lists the media lines of the attached tracks; the browser
\* sends the text of an answer or bytes that are no SDP; EmptyText is "".
OfferText(n, mimes) == [holds |-> "offer", n |-> n, media |-> mimes]
AnswerText == [holds |-> "answer", n |-> 0, media |-> <<>>]
GarbageText == [holds |-> "garbage", n |-> 0, media |-> <<>>]
EmptyText == [holds |-> "", n |-> 0, media |-> <<>>]
BrowserTexts == {AnswerText, GarbageText}

\* Whether the text parses as a session description.
Parses(text) == text.holds \in {"offer", "answer"}

SessionDescription(t, text) == [type |-> t, sdp |-> text]
NoDescription == SessionDescription("none", EmptyText)

NoTrack == [id |-> 0, mime |-> "none"]
MimeTypeH264 == "video/H264"
MimeTypeH265 == "video/H265"

\* The global webrtcPeer before NewWebRTCPeer has returned: a nil pointer.
NilPeer ==
    [ peerConnection    |-> "nil",
      videoTrack        |-> NoTrack,
      tracksCreated     |-> 0,
      senders           |-> <<>>,
      signalingState    |-> "stable",
      localDescription  |-> NoDescription,
      remoteDescription |-> NoDescription,
      offersCreated     |-> 0,
      attempted         |-> <<>>,
      written           |-> <<>> ]

\* NewWebRTCPeer on success: a peer connection in signaling state stable with
\* no track; videoTrack is nil.  senders, signalingState, the descriptions
\* and offersCreated are the pion connection's state; attempted lists the
\* packets WriteRTPPacket was called with, written the ones the track took.
NewWebRTCPeer == [NilPeer EXCEPT !.peerConnection = "open"]

Result(p, e, v, c) == [peer |-> p, err |-> e, val |-> v, calls |-> c]

TrackFaults == {"none", "track", "add"}

\* CreateVideoTrack without its assignment p.videoTrack = videoTrack: the
\* track is attached but the peer does not keep it.
CreateVideoTrackNotKept(p, codecMimeType, fault) ==
    IF fault = "track"
    THEN [peer |-> p, err |-> "errTrackCreate", val |-> EmptyText,
          calls |-> <<"NewTrackLocalStaticRTP">>]
    ELSE
    LET videoTrack == [id |-> p.tracksCreated + 1, mime |-> codecMimeType]
        q == [p EXCEPT !.tracksCreated = @ + 1]
    IN  IF fault = "add" \/ p.peerConnection = "closed"
        THEN [peer |-> q, err |-> "errTrackAttach", val |-> EmptyText,
              calls |-> <<"NewTrackLocalStaticRTP", "AddTrack">>]
        ELSE [peer |-> [q EXCEPT !.senders = Append(@, videoTrack)],
              err |-> "nil", val |-> EmptyText,
              calls |-> <<"NewTrackLocalStaticRTP", "AddTrack">>]

\* WebRTCPeer.CreateVideoTrack.  fault "track": NewTrackLocalStaticRTP fails;
\* "add": AddTrack fails, as it does on a closed connection.
CreateVideoTrack(p, codecMimeType, fault) ==
    IF fault = "track"
    THEN Result(p, "errTrackCreate", EmptyText, <<"NewTrackLocalStaticRTP">>)
    ELSE
    LET videoTrack == [id |-> p.tracksCreated + 1, mime |-> codecMimeType]
        q == [p EXCEPT !.videoTrack = videoTrack, !.tracksCreated = @ + 1]
    IN  IF fault = "add" \/ p.peerConnection = "closed"
        THEN Result(q, "errTrackAttach", EmptyText,
                    <<"NewTrackLocalStaticRTP", "AddTrack">>)
        ELSE Result([q EXCEPT !.senders = Append(@, videoTrack)], "nil",
                    EmptyText, <<"NewTrackLocalStaticRTP", "AddTrack">>)

Mimes(senders) == [i \in 1..Len(senders) |-> senders[i].mime]

OfferFaults == {"none", "create", "setlocal"}

\* WebRTCPeer.CreateOffer.  peerConnection.CreateOffer fails on a closed
\* connection (or with fault "create"); SetLocalDescription(offer) moves the
\* signaling state stable/have-local-offer -> have-local-offer.
CreateOffer(p, fault) ==
    IF fault = "create" \/ p.peerConnection = "closed"
    THEN Result(p, "errCreateOffer", EmptyText, <<"pc.CreateOffer">>)
    ELSE
    LET offer == SessionDescription("offer",
                     OfferText(p.offersCreated + 1, Mimes(p.senders)))
        q == [p EXCEPT !.offersCreated = @ + 1]
    IN  IF fault = "setlocal"
        THEN Result(q, "errSetLocal", EmptyText,
                    <<"pc.CreateOffer", "pc.SetLocalDescription">>)
        ELSE Result([q EXCEPT !.localDescription = offer,
                              !.signalingState = "have-local-offer"],
                    "nil", offer.sdp,
                    <<"pc.CreateOffer", "pc.SetLocalDescription">>)

AnswerFaults == {"none", "reject", "late"}

\* SetAnswer dropping the error of SetRemoteDescription.
SetAnswerErrorDropped(p, answerSDP, fault) ==
    LET answer == [type |-> "answer", sdp |-> answerSDP]
        applied == /\ p.peerConnection # "closed"
                   /\ Parses(answer.sdp)
                   /\ p.signalingState = "have-local-offer"
                   /\ fault # "reject"
    IN  [peer |-> IF applied
                  THEN [p EXCEPT !.remoteDescription = answer,
                                 !.signalingState = "stable"]
                  ELSE p,
         err |-> "nil", val |-> EmptyText,
         calls |-> <<"pc.SetRemoteDescription">>]

\* WebRTCPeer.SetAnswer: the text wrapped as a description of type answer and
\* handed to SetRemoteDescription, which refuses it on a closed connection,
\* when the text does not parse, and in every signaling state but
\* have-local-offer.  fault "reject": the library refuses the description for
\* another reason; "late": it returns an error after having applied it.
SetAnswer(p, answerSDP, fault) ==
    LET answer == SessionDescription("answer", answerSDP)
        c == <<"pc.SetRemoteDescription">>
    IN  IF \/ p.peerConnection = "closed"
           \/ ~Parses(answer.sdp)
           \/ p.signalingState # "have-local-offer"
           \/ fault = "reject"
        THEN Result(p, "errSetRemote", EmptyText, c)
        ELSE LET q == [p EXCEPT !.remoteDescription = answer,
                                !.signalingState = "stable"]
             IN  IF fault = "late"
                 THEN Result(q, "errSetRemote", EmptyText, c)
                 ELSE Result(q, "nil", EmptyText, c)

WriteFaults == {"none", "marshal", "write"}

\* WriteRTPPacket without its nil check of videoTrack.
WriteRTPPacketNoNilCheck(p, packet, fault) ==
    LET q == [p EXCEPT !.attempted = Append(@, packet)] IN
    IF fault = "marshal"
    THEN [peer |-> q, err |-> "errMarshal", val |-> EmptyText,
          calls |-> <<"packet.Marshal">>]
    ELSE IF fault = "write"
    THEN [peer |-> q, err |-> "errWrite", val |-> EmptyText,
          calls |-> <<"packet.Marshal", "videoTrack.Write">>]
    ELSE [peer |-> [q EXCEPT !.written =
                       Append(@, [track |-> p.videoTrack.id, packet |-> packet])],
          err |-> "nil", val |-> EmptyText,
          calls |-> <<"packet.Marshal", "videoTrack.Write">>]

\* WebRTCPeer.WriteRTPPacket
WriteRTPPacket(p, packet, fault) ==
    LET q == [p EXCEPT !.attempted = Append(@, packet)] IN
    IF p.videoTrack = NoTrack
    THEN Result(q, "errNoTrack", EmptyText, <<>>)
    ELSE IF fault = "marshal"
    THEN Result(q, "errMarshal", EmptyText, <<"packet.Marshal">>)
    ELSE IF fault = "write"
    THEN Result(q, "errWrite", EmptyText,
                <<"packet.Marshal", "videoTrack.Write">>)
    ELSE Result([q EXCEPT !.written =
                     Append(@, [track |-> p.videoTrack.id, packet |-> packet])],
                "nil", EmptyText, <<"packet.Marshal", "videoTrack.Write">>)

\* Close with its nil check inverted: the connection is never closed.
ClosePeerInvertedCheck(p) == p

\* WebRTCPeer.Close: peerConnection.Close() when there is a connection.  No
\* field of the WebRTCPeer is written: peerConnection here is the state of
\* the connection the field points to.
ClosePeer(p) ==
    IF p.peerConnection # "nil"
    THEN [p EXCEPT !.peerConnection = "closed", !.signalingState = "closed"]
    ELSE p

CloseFaults == {"none", "close"}

\* What WebRTCPeer.Close returns: the error of peerConnection.Close(), which
\* may fail while tearing an open connection down (fault "close") and
\* returns nil at once on a connection that is already closed.
CloseErr(p, fault) ==
    IF p.peerConnection = "open" /\ fault = "close" THEN "errClose" ELSE "nil"

\* ------------------------------------------------------------ main.go
Return(o, r) == [op |-> o, err |-> r.err, val |-> r.val]
NoReturn == [op |-> "none", err |-> "nil", val |-> EmptyText]

\* The relay closure with log.Fatalf in place of log.Printf: a failed write
\* ends the process from inside the read task.
RelayHandlerFatal(p, packet, fault) ==
    LET w == WriteRTPPacket(p, packet, fault) IN
    [peer |-> w.peer,
     ret |-> [op |-> "WriteRTPPacket", err |-> w.err, val |-> w.val],
     calls |-> <<"handler", "WriteRTPPacket">> \o w.calls
               \o (IF w.err # "nil" THEN <<"log.Fatalf">> ELSE <<>>),
     panicked |-> w.err # "nil"]

\* The relay closure writing a packet once more when its write failed.
RelayHandlerRetries(p, packet, fault) ==
    LET w == WriteRTPPacket(p, packet, fault)
        again == WriteRTPPacket(w.peer, packet, "none")
    IN  IF w.err = "nil"
        THEN [peer |-> w.peer,
              ret |-> [op |-> "WriteRTPPacket", err |-> w.err, val |-> w.val],
              calls |-> <<"handler", "WriteRTPPacket">> \o w.calls,
              panicked |-> FALSE]
        ELSE [peer |-> again.peer,
              ret |-> [op |-> "WriteRTPPacket", err |-> again.err,
                       val |-> again.val],
              calls |-> <<"handler", "WriteRTPPacket">> \o w.calls
                        \o <<"log.Printf", "WriteRTPPacket">> \o again.calls,
              panicked |-> FALSE]

\* The closure main hands to SetPacketHandler: WriteRTPPacket on the global
\* webrtcPeer, the error logged and dropped.  The closure returns nothing; a
\* call through a nil webrtcPeer dereferences it and panics.
RelayHandler(p, packet, fault) ==
    IF p.peerConnection = "nil"
    THEN [peer |-> p, ret |-> NoReturn, calls |-> <<"handler">>,
          panicked |-> TRUE]
    ELSE LET w == WriteRTPPacket(p, packet, fault) IN
         [peer |-> w.peer,
          ret |-> Return("WriteRTPPacket", w),
          calls |-> <<"handler", "WriteRTPPacket">> \o w.calls
                    \o (IF w.err # "nil" THEN <<"log.Printf">> ELSE <<>>),
          panicked |-> FALSE]

Response(st, k, text) == [status |-> st, kind |-> k, sdp |-> text]
NoResponse == Response(0, "none", EmptyText)
Handled(p, r, resp, c) == [peer |-> p, ret |-> r, response |-> resp, calls |-> c]

Methods == {"POST", "GET", "OPTIONS"}

\* A request body: bytes that do not decode as JSON, or the decoded struct,
\* in which a field the body does not have is the empty string.
NotJSON == [json |-> FALSE, type |-> "", sdp |-> GarbageText]
Bodies == {NotJSON} \cup
          [json : {TRUE}, type : {"answer", "offer", ""},
           sdp : BrowserTexts \cup {EmptyText}]
NoBody == [json |-> FALSE, type |-> "", sdp |-> EmptyText]

Request(path, method, body) == [path |-> path, method |-> method, body |-> body]
NoRequest == Request("none", "", NoBody)

\* corsMiddleware: a preflight OPTIONS request is answered 200 and next is
\* not called; next is what the wrapped handler does with the request.
corsMiddleware(p, method, next) ==
    IF method = "OPTIONS"
    THEN Handled(p, NoReturn, Response(200, "empty", EmptyText), <<>>)
    ELSE next

\* handleOffer tearing the peer down when CreateOffer fails.
handleOfferClosesOnError(p, method, fault) ==
    IF method # "POST"
    THEN [peer |-> p, ret |-> NoReturn,
          response |-> Response(405, "error", EmptyText),
          calls |-> <<"handleOffer">>]
    ELSE LET r == CreateOffer(p, fault)
             c == <<"handleOffer", "CreateOffer">> \o r.calls
         IN  IF r.err # "nil"
             THEN [peer |-> ClosePeer(r.peer),
                   ret |-> [op |-> "CreateOffer", err |-> r.err, val |-> r.val],
                   response |-> Response(500, "error", EmptyText),
                   calls |-> c \o <<"Close">>]
             ELSE [peer |-> r.peer,
                   ret |-> [op |-> "CreateOffer", err |-> r.err, val |-> r.val],
                   response |-> Response(200, "offer", r.val),
                   calls |-> c]

\* handleOffer
handleOffer(p, method, fault) ==
    IF method # "POST"
    THEN Handled(p, NoReturn, Response(405, "error", EmptyText),
                 <<"handleOffer">>)
    ELSE LET r == CreateOffer(p, fault)
             c == <<"handleOffer", "CreateOffer">> \o r.calls
         IN  IF r.err # "nil"
             THEN Handled(r.peer, Return("CreateOffer", r),
                          Response(500, "error", EmptyText), c)
             ELSE Handled(r.peer, Return("CreateOffer", r),
                          Response(200, "offer", r.val), c)

\* handleAnswer going on to SetAnswer after a failed Decode, with the zero
\* value of the struct (an empty sdp).
handleAnswerDecodeIgnored(p, method, body, fault) ==
    IF method # "POST"
    THEN [peer |-> p, ret |-> NoReturn,
          response |-> Response(405, "error", EmptyText),
          calls |-> <<"handleAnswer">>]
    ELSE LET r == SetAnswer(p, IF body.json THEN body.sdp ELSE EmptyText, fault)
         IN  [peer |-> r.peer,
              ret |-> [op |-> "SetAnswer", err |-> r.err, val |-> r.val],
              response |-> IF r.err # "nil"
                           THEN Response(500, "error", EmptyText)
                           ELSE Response(200, "success", EmptyText),
              calls |-> <<"handleAnswer", "Decode", "SetAnswer">> \o r.calls]

\* handleAnswer without its method check: a request of any method is decoded
\* and applied.
handleAnswerAnyMethod(p, method, body, fault) ==
    IF ~body.json
    THEN [peer |-> p, ret |-> NoReturn,
          response |-> Response(400, "error", EmptyText),
          calls |-> <<"handleAnswer", "Decode">>]
    ELSE LET r == SetAnswer(p, body.sdp, fault)
         IN  [peer |-> r.peer,
              ret |-> [op |-> "SetAnswer", err |-> r.err, val |-> r.val],
              response |-> IF r.err # "nil"
                           THEN Response(500, "error", EmptyText)
                           ELSE Response(200, "success", EmptyText),
              calls |-> <<"handleAnswer", "Decode", "SetAnswer">> \o r.calls]

\* handleAnswer rejecting a body whose type field is not "answer" with 400.
handleAnswerChecksType(p, method, body, fault) ==
    IF method # "POST"
    THEN [peer |-> p, ret |-> NoReturn,
          response |-> Response(405, "error", EmptyText),
          calls |-> <<"handleAnswer">>]
    ELSE IF ~body.json \/ body.type # "answer"
    THEN [peer |-> p, ret |-> NoReturn,
          response |-> Response(400, "error", EmptyText),
          calls |-> <<"handleAnswer", "Decode">>]
    ELSE LET r == SetAnswer(p, body.sdp, fault)
         IN  [peer |-> r.peer,
              ret |-> [op |-> "SetAnswer", err |-> r.err, val |-> r.val],
              response |-> IF r.err # "nil"
                           THEN Response(500, "error", EmptyText)
                           ELSE Response(200, "success", EmptyText),
              calls |-> <<"handleAnswer", "Decode", "SetAnswer">> \o r.calls]

\* handleAnswer
handleAnswer(p, method, body, fault) ==
    IF method # "POST"
    THEN Handled(p, NoReturn, Response(405, "error", EmptyText),
                 <<"handleAnswer">>)
    ELSE IF ~body.json
    THEN Handled(p, NoReturn, Response(400, "error", EmptyText),
                 <<"handleAnswer", "Decode">>)
    ELSE LET r == SetAnswer(p, body.sdp, fault)
             c == <<"handleAnswer", "Decode", "SetAnswer">> \o r.calls
         IN  IF r.err # "nil"
             THEN Handled(r.peer, Return("SetAnswer", r),
                          Response(500, "error", EmptyText), c)
             ELSE Handled(r.peer, Return("SetAnswer", r),
                          Response(200, "success", EmptyText), c)

\* The track's mime type hard-coded to H264, whatever the detected codec.
CodecMimeTypeAlwaysH264(codec) == MimeTypeH264

\* The mime type main picks for the detected codec ("" : log.Fatalf).
CodecMimeType(codec) ==
    IF codec = "H264" THEN MimeTypeH264
    ELSE IF codec = "H265" THEN MimeTypeH265
    ELSE ""

\* ------------------------------------------------------------ packets
\* The per-track callback with the handler captured when the callback is
\* bound rather than read at each packet: nil, as Connect binds it before
\* any handler is registered, so every packet is dropped.
OnPacketRTPBoundAtSetup(s, p, packet, fault) ==
    [stream |-> [s EXCEPT !.received = @ + 1], peer |-> p, ret |-> NoReturn,
     calls |-> <<"OnPacketRTP">>, panicked |-> FALSE]

\* The callback Connect binds with s.client.OnPacketRTP, run by the client's
\* read task for a packet of a media that was set up: the packet goes to
\* onPacketHandler when one is set and is dropped otherwise.
OnPacketRTP(s, p, packet, fault) ==
    LET t == [s EXCEPT !.received = @ + 1] IN
    IF s.onPacketHandler # "nil"
    THEN LET h == RelayHandler(p, packet, fault) IN
         [stream |-> [t EXCEPT !.handled = Append(@, packet)],
          peer |-> h.peer, ret |-> h.ret,
          calls |-> <<"OnPacketRTP">> \o h.calls, panicked |-> h.panicked]
    ELSE [stream |-> t, peer |-> p, ret |-> NoReturn,
          calls |-> <<"OnPacketRTP">>, panicked |-> FALSE]

\* The read task receives the next packet from the camera (a packet is its
\* sequence number).  Only a client that is playing receives packets, and
\* only for a media it set up and bound a callback to.
DeliverPacket ==
    /\ pc # "exited"
    /\ rtspStream.playing
    /\ rtspStream.client = "started"
    /\ rtspStream.received < MaxPackets
    /\ rtspStream.callbacks # {}
    /\ \E fault \in WriteFaults :
        LET packet == rtspStream.received + 1
            r == OnPacketRTP(rtspStream, webrtcPeer, packet, fault)
        IN  /\ rtspStream' = r.stream
            /\ webrtcPeer' = r.peer
            /\ ret' = r.ret
            /\ calls' = r.calls
            /\ pc' = IF r.panicked THEN "exited" ELSE pc
    /\ request' = NoRequest
    /\ UNCHANGED <<camera, response>>

\* ------------------------------------------------------------ func main
\* main going on after a failed Connect instead of exiting.
MainConnectGoesOn ==
    /\ pc = "start"
    /\ \E fault \in ConnectFaults, failAt \in 0..Len(camera) :
        LET s == Connect(rtspStream, camera, fault, failAt) IN
        /\ rtspStream' = s
        /\ ret' = [op |-> "Connect", err |-> s.connectErr, val |-> EmptyText]
    /\ pc' = "connected"
    /\ calls' = <<"Connect">>
    /\ request' = NoRequest
    /\ UNCHANGED <<camera, webrtcPeer, response>>

\* rtspStream.Connect(); an error is fatal (log.Fatalf exits the process).
MainConnect ==
    /\ pc = "start"
    /\ \E fault \in ConnectFaults, failAt \in 0..Len(camera) :
        LET s == Connect(rtspStream, camera, fault, failAt) IN
        /\ rtspStream' = s
        /\ ret' = [op |-> "Connect", err |-> s.connectErr, val |-> EmptyText]
        /\ pc' = IF s.connectErr = "nil" THEN "connected" ELSE "exited"
    /\ calls' = <<"Connect">>
    /\ request' = NoRequest
    /\ UNCHANGED <<camera, webrtcPeer, response>>

\* codec := rtspStream.GetCodec(); webrtcPeer, err = stream.NewWebRTCPeer()
MainNewWebRTCPeer ==
    /\ pc = "connected"
    /\ \E ok \in BOOLEAN :
        /\ webrtcPeer' = IF ok THEN NewWebRTCPeer ELSE NilPeer
        /\ ret' = [op |-> "NewWebRTCPeer",
                   err |-> IF ok THEN "nil" ELSE "errPeerInit",
                   val |-> EmptyText]
        /\ pc' = IF ok THEN "peerCreated" ELSE "exited"
    /\ calls' = <<"GetCodec", "NewWebRTCPeer">>
    /\ request' = NoRequest
    /\ UNCHANGED <<camera, rtspStream, response>>

\* The codec's mime type, or log.Fatalf("Unsupported codec"); then
\* webrtcPeer.CreateVideoTrack("video", codecMimeType).
MainCreateVideoTrack ==
    /\ pc = "peerCreated"
    /\ LET mime == CodecMimeType(GetCodec(rtspStream)) IN
       IF mime = ""
       THEN /\ pc' = "exited"
            /\ calls' = <<"log.Fatalf">>
            /\ UNCHANGED <<webrtcPeer, ret>>
       ELSE \E fault \in TrackFaults :
            LET r == CreateVideoTrack(webrtcPeer, mime, fault) IN
            /\ webrtcPeer' = r.peer
            /\ ret' = Return("CreateVideoTrack", r)
            /\ calls' = <<"CreateVideoTrack">> \o r.calls
            /\ pc' = IF r.err = "nil" THEN "trackCreated" ELSE "exited"
    /\ request' = NoRequest
    /\ UNCHANGED <<camera, rtspStream, response>>

\* rtspStream.SetPacketHandler(func(packet) {...})
MainSetPacketHandler ==
    /\ pc = "trackCreated"
    /\ rtspStream' = SetPacketHandler(rtspStream, "relay")
    /\ pc' = "handlerSet"
    /\ calls' = <<"SetPacketHandler">>
    /\ ret' = NoReturn
    /\ request' = NoRequest
    /\ UNCHANGED <<camera, webrtcPeer, response>>

\* The observers and the routes are registered; http.ListenAndServe serves.
MainListenAndServe ==
    /\ pc = "handlerSet"
    /\ pc' = "serving"
    /\ calls' = <<"OnConnectionStateChange", "OnICECandidate", "ListenAndServe">>
    /\ ret' = NoReturn
    /\ request' = NoRequest
    /\ UNCHANGED <<camera, rtspStream, webrtcPeer, response>>

\* http.ListenAndServe returns: log.Fatal exits the process.
MainServerStops ==
    /\ pc = "serving"
    /\ pc' = "exited"
    /\ calls' = <<"log.Fatal">>
    /\ ret' = NoReturn
    /\ request' = NoRequest
    /\ UNCHANGED <<camera, rtspStream, webrtcPeer, response>>

\* A request to /api/offer.
HandleOffer ==
    /\ pc = "serving"
    /\ webrtcPeer.offersCreated < MaxOffers
    /\ \E method \in Methods, fault \in OfferFaults :
        LET h == corsMiddleware(webrtcPeer, method,
                                handleOffer(webrtcPeer, method, fault))
        IN  /\ webrtcPeer' = h.peer
            /\ ret' = h.ret
            /\ request' = Request("/api/offer", method, NoBody)
            /\ response' = h.response
            /\ calls' = <<"corsMiddleware">> \o h.calls
    /\ UNCHANGED <<camera, rtspStream, pc>>

\* A request to /api/answer.
HandleAnswer ==
    /\ pc = "serving"
    /\ \E method \in Methods, body \in Bodies, fault \in AnswerFaults :
        LET h == corsMiddleware(webrtcPeer, method,
                                handleAnswer(webrtcPeer, method, body, fault))
        IN  /\ webrtcPeer' = h.peer
            /\ ret' = h.ret
            /\ request' = Request("/api/answer", method, body)
            /\ response' = h.response
            /\ calls' = <<"corsMiddleware">> \o h.calls
    /\ UNCHANGED <<camera, rtspStream, pc>>

\* The process starts: the globals rtspStream and webrtcPeer; the stream is
\* built by NewRTSPStream before anything else runs.
Init ==
    /\ camera \in ScenarioCameras
    /\ rtspStream = NewRTSPStream
    /\ webrtcPeer = NilPeer
    /\ pc = "start"
    /\ calls = <<>>
    /\ ret = NoReturn
    /\ request = NoRequest
    /\ response = NoResponse

Next ==
    \/ MainConnect
    \/ MainNewWebRTCPeer
    \/ MainCreateVideoTrack
    \/ MainSetPacketHandler
    \/ MainListenAndServe
    \/ MainServerStops
    \/ DeliverPacket
    \/ HandleOffer
    \/ HandleAnswer

Spec == Init /\ [][Next]_vars

\* ------------------------------------------------------------ RTSPStream's methods, called directly
\* A caller of package stream that holds a stream and a peer and calls the
\* stream's methods in any order; Connect is called once per stream.
StreamConnect ==
    /\ rtspStream.connectErr = "none"
    /\ \E fault \in ConnectFaults, failAt \in 0..Len(camera) :
        LET s == Connect(rtspStream, camera, fault, failAt) IN
        /\ rtspStream' = s
        /\ ret' = [op |-> "Connect", err |-> s.connectErr, val |-> EmptyText]
    /\ calls' = <<"Connect">>
    /\ request' = NoRequest
    /\ UNCHANGED <<camera, webrtcPeer, pc, response>>

StreamSetPacketHandler ==
    /\ rtspStream' = SetPacketHandler(rtspStream, "relay")
    /\ calls' = <<"SetPacketHandler">>
    /\ ret' = NoReturn
    /\ request' = NoRequest
    /\ UNCHANGED <<camera, webrtcPeer, pc, response>>

\* RTSPStream.Close, with the call it makes on the client when the field is
\* not nil.
StreamClose ==
    /\ rtspStream' = CloseStream(rtspStream)
    /\ calls' = IF rtspStream.client # "nil"
                THEN <<"Close", "client.Close">>
                ELSE <<"Close">>
    /\ ret' = [op |-> "Close", err |-> "nil", val |-> EmptyText]
    /\ request' = NoRequest
    /\ UNCHANGED <<camera, webrtcPeer, pc, response>>

InitRTSP ==
    /\ camera \in Descriptions
    /\ rtspStream = NewRTSPStream
    /\ webrtcPeer = NewWebRTCPeer
    /\ pc = "api"
    /\ calls = <<>>
    /\ ret = NoReturn
    /\ request = NoRequest
    /\ response = NoResponse

NextRTSP ==
    \/ StreamConnect
    \/ StreamSetPacketHandler
    \/ StreamClose
    \/ DeliverPacket

SpecRTSP == InitRTSP /\ [][NextRTSP]_vars

\* ------------------------------------------------------------ WebRTCPeer's methods, called directly
PeerCall(o, r) ==
    /\ webrtcPeer' = r.peer
    /\ ret' = Return(o, r)
    /\ calls' = <<o>> \o r.calls
    /\ request' = NoRequest
    /\ UNCHANGED <<camera, rtspStream, pc, response>>

PeerCreateVideoTrack ==
    /\ webrtcPeer.tracksCreated < MaxTracks
    /\ \E mime \in {MimeTypeH264, MimeTypeH265}, fault \in TrackFaults :
        PeerCall("CreateVideoTrack", CreateVideoTrack(webrtcPeer, mime, fault))

PeerCreateOffer ==
    /\ webrtcPeer.offersCreated < MaxOffers
    /\ \E fault \in OfferFaults :
        PeerCall("CreateOffer", CreateOffer(webrtcPeer, fault))

PeerSetAnswer ==
    \E text \in BrowserTexts, fault \in AnswerFaults :
        PeerCall("SetAnswer", SetAnswer(webrtcPeer, text, fault))

PeerWriteRTPPacket ==
    /\ Len(webrtcPeer.attempted) < MaxPackets
    /\ \E fault \in WriteFaults :
        PeerCall("WriteRTPPacket",
                 WriteRTPPacket(webrtcPeer, Len(webrtcPeer.attempted) + 1,
                                fault))

PeerClose ==
    \E fault \in CloseFaults :
        PeerCall("Close", Result(ClosePeer(webrtcPeer),
                                 CloseErr(webrtcPeer, fault), EmptyText,
                                 <<"pc.Close">>))

\* The relay closure of main.go called with the next packet, as the read
\* task calls it, whatever the peer's state.
PeerRelayHandler ==
    /\ pc # "exited"
    /\ Len(webrtcPeer.attempted) < MaxPackets
    /\ \E fault \in WriteFaults :
        LET h == RelayHandler(webrtcPeer, Len(webrtcPeer.attempted) + 1, fault)
        IN  /\ webrtcPeer' = h.peer
            /\ ret' = h.ret
            /\ calls' = h.calls
            /\ pc' = IF h.panicked THEN "exited" ELSE pc
    /\ request' = NoRequest
    /\ UNCHANGED <<camera, rtspStream, response>>

InitPeer ==
    /\ camera \in {<<(<<"H264">>)>>}
    /\ rtspStream = NewRTSPStream
    /\ webrtcPeer = NewWebRTCPeer
    /\ pc = "api"
    /\ calls = <<>>
    /\ ret = NoReturn
    /\ request = NoRequest
    /\ response = NoResponse

NextPeer ==
    \/ PeerCreateVideoTrack
    \/ PeerCreateOffer
    \/ PeerSetAnswer
    \/ PeerWriteRTPPacket
    \/ PeerClose
    \/ PeerRelayHandler

SpecPeer == InitPeer /\ [][NextPeer]_vars

\* ------------------------------------------------------------ properties of Connect
Supported(format) == format \in {"H264", "H265"}
Carries(media) == \E j \in 1..Len(media) : Supported(media[j])
NoneSupported(desc) == \A m \in 1..Len(desc) : ~Carries(desc[m])

\* The first media, in declaration order, that carries a supported format.
FirstSupportedMedia(desc) ==
    CHOOSE m \in 1..Len(desc) :
        Carries(desc[m]) /\ \A k \in 1..(m - 1) : ~Carries(desc[k])

\* The first supported format of a media, in declaration order.
FirstSupportedFormat(media) ==
    media[CHOOSE j \in 1..Len(media) :
              Supported(media[j]) /\ \A k \in 1..(j - 1) : ~Supported(media[k])]

\* Connect got as far as reading the camera's description.
Described ==
    rtspStream.connectErr \notin {"none", "errParse", "errStart", "errDescribe"}

SetupRequests ==
    {i \in 1..Len(rtspStream.requests) : rtspStream.requests[i].req = "SETUP"}
SetupMedias == {rtspStream.requests[i].media : i \in SetupRequests}
CallbackMedias == {cb.media : cb \in rtspStream.callbacks}
PlayIssued ==
    \E i \in 1..Len(rtspStream.requests) : rtspStream.requests[i].req = "PLAY"

\* C1: after a successful Connect exactly one media has been set up and
\* given a packet callback, namely the first media of the description that
\* carries an H264 or H265 format; no later media is set up or bound.
C1_OnlyFirstMediaSetUp ==
    rtspStream.connectErr = "nil" =>
        /\ Cardinality(SetupRequests) = 1
        /\ SetupMedias = {FirstSupportedMedia(camera)}
        /\ CallbackMedias = {FirstSupportedMedia(camera)}

\* C2: after a successful Connect, GetCodec is the codec of the first
\* H264/H265 format in declaration order (medias in order, formats within a
\* media in order), whatever follows it.
C2_CodecOfFirstFormat ==
    rtspStream.connectErr = "nil" =>
        GetCodec(rtspStream) =
            FirstSupportedFormat(camera[FirstSupportedMedia(camera)])

\* C3: when no media of the description carries H264 or H265, Connect
\* returns the no-supported-codec error, no SETUP and no PLAY is issued, no
\* packet callback is bound, and the packet handler is never invoked.
C3_NoSupportedCodec ==
    (Described /\ NoneSupported(camera)) =>
        /\ rtspStream.connectErr = "errNoCodec"
        /\ SetupRequests = {}
        /\ ~PlayIssued
        /\ rtspStream.callbacks = {}
        /\ ~rtspStream.playing
        /\ rtspStream.received = 0
        /\ rtspStream.handled = <<>>

\* C3's case: a camera with two unsupported medias, Connect has returned the
\* error and a packet handler is registered.
C3_Witness ==
    /\ Len(camera) = 2
    /\ NoneSupported(camera)
    /\ rtspStream.connectErr = "errNoCodec"
    /\ rtspStream.onPacketHandler = "relay"
    /\ rtspStream.client = "started"

\* ------------------------------------------------------------ properties of the peer and the relay
\* The step is a call of the named WebRTCPeer method, made directly.
PeerStep(o) == calls' # <<>> /\ calls'[1] = o

\* C4: WriteRTPPacket on a peer whose videoTrack is nil returns the no-track
\* error and changes nothing: no Marshal, no Write, and the track, the
\* connection and its descriptions are as before (attempted, the record of
\* the call itself, aside).
C4_WriteBeforeTrack ==
    [][ (PeerStep("WriteRTPPacket") /\ webrtcPeer.videoTrack = NoTrack) =>
            /\ ret'.err = "errNoTrack"
            /\ calls' = <<"WriteRTPPacket">>
            /\ [webrtcPeer' EXCEPT !.attempted = webrtcPeer.attempted]
                   = webrtcPeer ]_vars

\* C4's case: both packets were written to a peer that has no track but has
\* a local description set.
C4_Witness ==
    /\ ret.op = "WriteRTPPacket"
    /\ ret.err = "errNoTrack"
    /\ webrtcPeer.videoTrack = NoTrack
    /\ Len(webrtcPeer.attempted) = 2
    /\ webrtcPeer.localDescription # NoDescription

\* The step is the read task dispatching one packet.
DeliveryStep == rtspStream'.received = rtspStream.received + 1

\* The step made the named call.
Called(c) == \E i \in 1..Len(calls') : calls'[i] = c

\* C5: whatever WriteRTPPacket returns, a packet dispatch leaves the process
\* running, the client playing and the handler registered; every packet
\* dispatched while the handler is registered is passed to the handler and
\* attempted with WriteRTPPacket, and an error of that call is logged.
C5_RelaySurvivesWriteError ==
    [][ DeliveryStep =>
            /\ pc' = pc
            /\ rtspStream'.playing
            /\ rtspStream'.client = "started"
            /\ rtspStream'.onPacketHandler = rtspStream.onPacketHandler
            /\ rtspStream.onPacketHandler # "nil" =>
                   /\ rtspStream'.handled =
                          Append(rtspStream.handled, rtspStream'.received)
                   /\ webrtcPeer'.attempted =
                          Append(webrtcPeer.attempted, rtspStream'.received)
                   /\ ret'.op = "WriteRTPPacket"
                   /\ Called("WriteRTPPacket")
                   /\ ret'.err # "nil" => Called("log.Printf") ]_vars

\* C5's case: the write of packet 1 failed and packet 2 was still handled
\* and written.
C5_Witness ==
    /\ pc = "serving"
    /\ rtspStream.handled = <<1, 2>>
    /\ webrtcPeer.attempted = <<1, 2>>
    /\ Len(webrtcPeer.written) = 1
    /\ webrtcPeer.written[1].packet = 2

\* C6: a CreateVideoTrack call on a peer that already has a video track is
\* rejected (it returns an error, the track-already-exists one) and leaves
\* videoTrack and the attached tracks as they were; the peer never has more
\* than one attached track.
C6_SecondTrackRejected ==
    [][ /\ Len(webrtcPeer'.senders) <= 1
        /\ (PeerStep("CreateVideoTrack") /\ webrtcPeer.videoTrack # NoTrack) =>
               /\ ret'.err # "nil"
               /\ webrtcPeer'.videoTrack = webrtcPeer.videoTrack
               /\ webrtcPeer'.senders = webrtcPeer.senders ]_vars

\* The step serves a POST to the named path.
PostStep(path) == request'.path = path /\ request'.method = "POST"

\* C7: a POST /api/answer that arrives while no local description is set
\* gets an error status, never the success acknowledgment; when it reaches
\* SetAnswer, SetAnswer returns an error; the remote description stays unset.
C7_AnswerBeforeOffer ==
    [][ (PostStep("/api/answer") /\ webrtcPeer.localDescription = NoDescription) =>
            /\ response'.status \in {400, 500}
            /\ response'.kind # "success"
            /\ ret'.op = "SetAnswer" => ret'.err # "nil"
            /\ webrtcPeer.signalingState = "stable"
            /\ webrtcPeer'.remoteDescription = NoDescription ]_vars

\* C7's case: a well-formed answer was posted before any offer and refused.
C7_Witness ==
    /\ request.path = "/api/answer"
    /\ request.method = "POST"
    /\ request.body.json
    /\ request.body.sdp = AnswerText
    /\ webrtcPeer.localDescription = NoDescription
    /\ ret.op = "SetAnswer"
    /\ response.status = 500

\* C8: CreateOffer on a peer with no attached track returns an error and
\* sets no local description; on a peer with a track, a CreateOffer that
\* returns without error has set the local description to an offer whose
\* SDP text is the returned value.
C8_OfferNeedsTrack ==
    [][ PeerStep("CreateOffer") =>
            /\ webrtcPeer.senders = <<>> =>
                   /\ ret'.err # "nil"
                   /\ webrtcPeer'.localDescription = webrtcPeer.localDescription
            /\ (webrtcPeer.senders # <<>> /\ ret'.err = "nil") =>
                   /\ webrtcPeer'.localDescription.type = "offer"
                   /\ webrtcPeer'.localDescription.sdp = ret'.val ]_vars

\* C9: an answer is accepted with the success acknowledgment only when no
\* remote description has been applied before.
C9_AnswerAcceptedOnce ==
    [][ (PostStep("/api/answer") /\ response'.kind = "success") =>
            webrtcPeer.remoteDescription = NoDescription ]_vars

\* C10: a POST /api/answer whose body does not decode is answered 400,
\* SetAnswer is not called, and the peer is as it was before the request.
C10_MalformedBody ==
    [][ (PostStep("/api/answer") /\ ~request'.body.json) =>
            /\ response'.status = 400
            /\ ~Called("SetAnswer")
            /\ ret'.op # "SetAnswer"
            /\ webrtcPeer' = webrtcPeer ]_vars

\* C10's case: the undecodable body arrived while an offer was pending, so
\* that an answer could have been applied.
C10_Witness ==
    /\ request.path = "/api/answer"
    /\ request.method = "POST"
    /\ ~request.body.json
    /\ response.status = 400
    /\ webrtcPeer.signalingState = "have-local-offer"
    /\ webrtcPeer.remoteDescription = NoDescription

\* ------------------------------------------------------------ properties of the signaling endpoints
\* The step serves an HTTP request.
HttpStep == request'.path # "none"

\* The step called CreateOffer or SetAnswer and the call returned an error.
PeerCallFailed ==
    ret'.op \in {"CreateOffer", "SetAnswer"} /\ ret'.err # "nil"

\* C11: every request to /api/offer or /api/answer whose method is not POST
\* is answered 405 and calls neither CreateOffer nor SetAnswer; a request
\* whose call on the peer fails is answered 500.
C11_NonPostIs405 ==
    [][ HttpStep =>
            /\ request'.method # "POST" =>
                   /\ response'.status = 405
                   /\ ~Called("CreateOffer")
                   /\ ~Called("SetAnswer")
            /\ PeerCallFailed => response'.status = 500 ]_vars

\* C11 as amended: a request whose method is neither POST nor OPTIONS is
\* answered 405 by the handler; an OPTIONS request is answered 200 with an
\* empty body by corsMiddleware and never reaches the handler; in both
\* cases neither CreateOffer nor SetAnswer is called and the peer is as it
\* was; a request whose call on the peer fails is answered 500.
C11_NonPostRejected ==
    [][ HttpStep =>
            /\ request'.method \notin {"POST", "OPTIONS"} =>
                   /\ response'.status = 405
                   /\ calls'[Len(calls')] \in {"handleOffer", "handleAnswer"}
            /\ request'.method = "OPTIONS" =>
                   /\ response' = Response(200, "empty", EmptyText)
                   /\ calls' = <<"corsMiddleware">>
            /\ request'.method # "POST" =>
                   /\ ~Called("CreateOffer")
                   /\ ~Called("SetAnswer")
                   /\ ~Called("Decode")
                   /\ ret' = NoReturn
                   /\ webrtcPeer' = webrtcPeer
            /\ PeerCallFailed => response'.status = 500 ]_vars

\* C11's case: a GET /api/answer carrying a well-formed answer arrived while
\* an offer was pending; it was answered 405 and the answer was not applied.
C11_Witness ==
    /\ request.path = "/api/answer"
    /\ request.method = "GET"
    /\ request.body.json
    /\ request.body.sdp = AnswerText
    /\ response.status = 405
    /\ webrtcPeer.signalingState = "have-local-offer"
    /\ webrtcPeer.remoteDescription = NoDescription

CloseStep == calls' # <<>> /\ calls'[1] = "Close"

\* C13: RTSPStream.Close is safe and idempotent in every state (before
\* Connect, after a Connect that failed at any step or succeeded, after a
\* Close): it returns no error, it closes the client only if the client's
\* transport was opened by Start, a second Close would leave the session as
\* the first left it, and nothing but the client's state changes.
C13_CloseSafeIdempotent ==
    [][ CloseStep =>
            /\ ret'.err = "nil"
            /\ Called("client.Close") =>
                   rtspStream.client \in {"started", "closed"}
            /\ rtspStream'.client \in {"nil", "closed"}
            /\ ~rtspStream'.playing
            /\ CloseStream(rtspStream') = rtspStream'
            /\ [rtspStream' EXCEPT !.client = rtspStream.client,
                                   !.playing = rtspStream.playing]
                   = rtspStream ]_vars

Connected ==
    /\ rtspStream.connectErr = "nil"
    /\ PlayIssued

\* CreateVideoTrack has returned without error: the peer keeps the track and
\* the track is attached to the connection.
TrackCreated ==
    /\ webrtcPeer.videoTrack # NoTrack
    /\ webrtcPeer.senders = <<webrtcPeer.videoTrack>>

\* C15: in main, CreateVideoTrack is called only after Connect has returned
\* without error, and the relay handler is registered only after
\* CreateVideoTrack has; so whenever the relay handler calls WriteRTPPacket,
\* videoTrack is not nil and the call does not return the no-track error.
C15_BindingOrder ==
    [][ /\ Called("CreateVideoTrack") => Connected
        /\ calls' = <<"SetPacketHandler">> => (Connected /\ TrackCreated)
        /\ rtspStream'.onPacketHandler # "nil" =>
               webrtcPeer'.videoTrack # NoTrack
        /\ (DeliveryStep /\ Called("WriteRTPPacket")) =>
               /\ webrtcPeer.videoTrack # NoTrack
               /\ Called("packet.Marshal")
               /\ ret'.err # "errNoTrack" ]_vars

\* C15's case: main is serving and the relay handler has just written a
\* packet to the track.
C15_Witness ==
    /\ pc = "serving"
    /\ Connected
    /\ TrackCreated
    /\ calls # <<>>
    /\ calls[1] = "OnPacketRTP"
    /\ ret.op = "WriteRTPPacket"
    /\ ret.err = "nil"
    /\ webrtcPeer.written # <<>>

\* C16: the video track of the peer has the media type of the detected
\* codec (H264: video/H264, H265: video/H265), and so has every track
\* attached to the connection; CreateVideoTrack is never called while
\* GetCodec is anything else, so no track of another codec exists.
C16_TrackMatchesCodec ==
    LET codec == GetCodec(rtspStream)
        mime == IF codec = "H264" THEN "video/H264" ELSE "video/H265"
    IN  /\ webrtcPeer.tracksCreated > 0 => codec \in {"H264", "H265"}
        /\ webrtcPeer.videoTrack # NoTrack => webrtcPeer.videoTrack.mime = mime
        /\ \A i \in 1..Len(webrtcPeer.senders) :
               webrtcPeer.senders[i].mime = mime
        /\ codec \notin {"H264", "H265"} =>
               /\ webrtcPeer.videoTrack = NoTrack
               /\ pc \in {"start", "exited"}

\* C16's case: the camera offers H265 only and main has attached an H265
\* track.
C16_Witness ==
    /\ camera = <<(<<"Other">>), (<<"H265">>)>>
    /\ GetCodec(rtspStream) = "H265"
    /\ webrtcPeer.videoTrack.mime = MimeTypeH265
    /\ webrtcPeer.senders = <<webrtcPeer.videoTrack>>
    /\ pc = "serving"

\* The step is a setup step of main whose call returned an error.
SetupFailed ==
    /\ ret'.op \in {"Connect", "NewWebRTCPeer", "CreateVideoTrack"}
    /\ ret'.err # "nil"

\* C17: a failure of a setup step (Connect, NewWebRTCPeer, the codec check,
\* CreateVideoTrack) ends the process: nothing runs afterwards, so the step
\* is not retried and no later step runs.  Each setup step runs at most
\* once, each only after the steps before it succeeded, and a request is
\* served only when Connect, the peer, the track and the registration of the
\* packet handler have all succeeded.
C17_SetupFailureAborts ==
    [][ /\ pc # "exited"
        /\ SetupFailed => pc' = "exited"
        /\ Called("log.Fatalf") => pc' = "exited"
        /\ Called("Connect") => rtspStream = NewRTSPStream
        /\ Called("NewWebRTCPeer") => (Connected /\ webrtcPeer = NilPeer)
        /\ Called("CreateVideoTrack") =>
               /\ Connected
               /\ webrtcPeer = NewWebRTCPeer
        /\ calls' = <<"SetPacketHandler">> =>
               /\ Connected
               /\ TrackCreated
               /\ rtspStream.onPacketHandler = "nil"
        /\ HttpStep =>
               /\ Connected
               /\ webrtcPeer.peerConnection = "open"
               /\ TrackCreated
               /\ webrtcPeer.tracksCreated = 1
               /\ rtspStream.onPacketHandler = "relay" ]_vars

\* C17's case: Connect and NewWebRTCPeer succeeded, AddTrack failed inside
\* CreateVideoTrack, and the process exited with no handler registered.
C17_Witness ==
    /\ pc = "exited"
    /\ Connected
    /\ ret.op = "CreateVideoTrack"
    /\ ret.err = "errTrackAttach"
    /\ rtspStream.onPacketHandler = "nil"
    /\ response = NoResponse

\* C18: when the process has terminated after a successful Connect,
\* RTSPStream.Close has been executed (the client is closed), and when it
\* has terminated after a successful NewWebRTCPeer, WebRTCPeer.Close has
\* been executed (the connection is closed).
C18_ClosedAtExit ==
    pc = "exited" =>
        /\ rtspStream.connectErr = "nil" => rtspStream.client = "closed"
        /\ webrtcPeer.peerConnection # "nil" =>
               webrtcPeer.peerConnection = "closed"

\* ------------------------------------------------------------ properties of failing requests
\* The step serves a request that is answered with an error status.
FailedRequest == HttpStep /\ response'.status >= 400

\* C19: a request answered with an error status (wrong method 405,
\* malformed body 400, CreateOffer or SetAnswer error 500) leaves the
\* process running and the relay as it was: the RTSP session with its
\* handler, the video track, the attached tracks, the connection and the
\* packets written are unchanged; a packet dispatched after such a request
\* is still passed to WriteRTPPacket.
C19_FailedRequestLeavesRelay ==
    [][ /\ FailedRequest =>
               /\ pc' = pc
               /\ rtspStream' = rtspStream
               /\ webrtcPeer'.videoTrack = webrtcPeer.videoTrack
               /\ webrtcPeer'.senders = webrtcPeer.senders
               /\ webrtcPeer'.peerConnection = webrtcPeer.peerConnection
               /\ webrtcPeer'.attempted = webrtcPeer.attempted
               /\ webrtcPeer'.written = webrtcPeer.written
        /\ (DeliveryStep /\ response.status >= 400) =>
               /\ Called("WriteRTPPacket")
               /\ webrtcPeer'.attempted =
                      Append(webrtcPeer.attempted, rtspStream'.received)
               /\ pc' = pc ]_vars

\* C19's case: the last request was answered 500, no description is set,
\* and the packet dispatched after that request was written to the track.
C19_Witness ==
    /\ response.status = 500
    /\ webrtcPeer.localDescription = NoDescription
    /\ calls # <<>>
    /\ calls[1] = "OnPacketRTP"
    /\ ret.op = "WriteRTPPacket"
    /\ ret.err = "nil"
    /\ webrtcPeer.written # <<>>
    /\ pc = "serving"

\* ------------------------------------------------------------ properties of the detected codec
\* detectedCodec as Connect's media loop leaves it after the first k medias
\* of the camera's description, when no Setup fails.
CodecAfterMedias(k) ==
    MediaLoop([ detectedCodec |-> "", requests |-> <<>>, callbacks |-> {},
                setupCount |-> 0, err |-> "nil" ],
              SubSeq(camera, 1, k), 1, 0).detectedCodec

\* C20: the detected codec is assigned at most once during Connect and
\* never changes afterwards.  Once it holds H264 or H265 after some media of
\* the loop of a Connect that succeeds, it holds the same value after every
\* later media; and once Connect has returned, no operation (SetPacketHandler,
\* GetCodec, Close, a packet dispatch) changes it.
C20_CodecAssignedOnce ==
    [][ /\ rtspStream'.connectErr = "nil" =>
               \A k \in 1..Len(camera) : \A n \in k..Len(camera) :
                   CodecAfterMedias(k) \in {"H264", "H265"} =>
                       CodecAfterMedias(n) = CodecAfterMedias(k)
        /\ rtspStream.connectErr # "none" =>
               rtspStream'.detectedCodec = rtspStream.detectedCodec ]_vars

\* ------------------------------------------------------------ properties of the relay
\* C21: a packet passed to a per-track callback results in at most one
\* WriteRTPPacket call, and in exactly one once the relay handler is
\* registered: the packets WriteRTPPacket was called with are, in order and
\* once each, the packets dispatched since the registration.  A packet whose
\* write failed is not written later: the packets the track took are among
\* the attempted ones, in order, once each.
C21_OneWritePerPacket ==
    LET a == webrtcPeer.attempted
        w == webrtcPeer.written
    IN  /\ a = rtspStream.handled
        /\ Len(a) <= rtspStream.received
        /\ \A i \in 1..Len(a) : a[i] = rtspStream.received - Len(a) + i
        /\ rtspStream.onPacketHandler = "nil" => a = <<>>
        /\ \A i \in 1..Len(w) : \E j \in 1..Len(a) : a[j] = w[i].packet
        /\ \A i \in 1..Len(w) : \A j \in (i + 1)..Len(w) :
               w[i].packet < w[j].packet

\* C21's case: packet 1 was written, the write of packet 2 failed, and
\* packet 2 was attempted once and is not written.
C21_Witness ==
    /\ rtspStream.received = 2
    /\ webrtcPeer.attempted = <<1, 2>>
    /\ ret.op = "WriteRTPPacket"
    /\ ret.err = "errWrite"
    /\ Len(webrtcPeer.written) = 1
    /\ webrtcPeer.written[1].packet = 1

\* C22: the write of onPacketHandler by SetPacketHandler is ordered before
\* every read of the field by a per-track callback.  The read task runs
\* from PLAY on with no synchronisation with main, so the claim holds only
\* if no callback runs before main has returned from SetPacketHandler: a
\* callback that runs earlier reads the field main is still to write.
C22_HandlerWrittenBeforeRead ==
    [][ DeliveryStep =>
            /\ pc \in {"handlerSet", "serving"}
            /\ rtspStream.onPacketHandler # "nil" ]_vars

\* ------------------------------------------------------------ properties of the peer's track
\* C23: videoTrack is non-nil only if that track is attached to the peer
\* connection; after a CreateVideoTrack that returned an error on a peer
\* that had no track, videoTrack is still nil, so that the next
\* WriteRTPPacket returns the no-track error.
C23_TrackOnlyIfAttached ==
    /\ webrtcPeer.videoTrack # NoTrack =>
           \E i \in 1..Len(webrtcPeer.senders) :
               webrtcPeer.senders[i] = webrtcPeer.videoTrack
    /\ (ret.op = "CreateVideoTrack" /\ ret.err # "nil"
            /\ webrtcPeer.senders = <<>>) =>
           /\ webrtcPeer.videoTrack = NoTrack
           /\ \A fault \in WriteFaults :
                  WriteRTPPacket(webrtcPeer, 1, fault).err = "errNoTrack"

\* ------------------------------------------------------------ properties of handleAnswer
\* C24: for every POST /api/answer whose body decodes as JSON, whatever its
\* type field and whether or not it has an sdp field, handleAnswer calls
\* SetAnswer with the body's sdp; the request is never answered 400, the
\* response is the success acknowledgment when SetAnswer returns nil and 500
\* when it returns an error, and a description it applies has type answer
\* and the body's sdp as its text.
C24_TypeFieldIgnored ==
    [][ (PostStep("/api/answer") /\ request'.body.json) =>
            /\ Called("SetAnswer")
            /\ ret'.op = "SetAnswer"
            /\ response' = IF ret'.err = "nil"
                           THEN Response(200, "success", EmptyText)
                           ELSE Response(500, "error", EmptyText)
            /\ \E fault \in AnswerFaults :
                   webrtcPeer' =
                       SetAnswer(webrtcPeer, request'.body.sdp, fault).peer
            /\ webrtcPeer'.remoteDescription # webrtcPeer.remoteDescription =>
                   webrtcPeer'.remoteDescription =
                       SessionDescription("answer", request'.body.sdp) ]_vars

\* C24's case: a body of type "offer" carrying a well-formed answer text
\* was posted while an offer was pending, and was applied as an answer and
\* acknowledged.
C24_Witness ==
    /\ request.path = "/api/answer"
    /\ request.method = "POST"
    /\ request.body.json
    /\ request.body.type = "offer"
    /\ response.kind = "success"
    /\ webrtcPeer.remoteDescription = SessionDescription("answer", AnswerText)
    /\ webrtcPeer.signalingState = "stable"

====
